---- MODULE Spec2Model ----
(***************************************************************************)
(* SunLinker (src/src/App.jsx): a tree of sectors edited through a context *)
(* menu, a radial partition layout derived from the tree, vertices on the  *)
(* sectors and edges drawn between vertices by dragging.                   *)
(*                                                                         *)
(* The tree is the nested value the component keeps in its `tree` state:   *)
(* a node is a record [id, label, color, baseColor, depth, children,       *)
(* vertices], children a sequence of nodes, vertices a sequence of         *)
(* [id, color].  Colours are RGB triples; the absent baseColor (null) is   *)
(* the empty sequence.  Identifiers (uuidv4) are drawn from a counter.     *)
(***************************************************************************)
EXTENDS Integers, Sequences, FiniteSets

\* Identifiers are 1, 2, ...: a handler that calls uuidv4 is taken while the
\* next identifier is MaxId or below.
MaxId == 6
\* Most nodes Add Child grows a tree to, most vertices Create Vertex puts on
\* it, longest edge list explored.
MaxNodes == 4
MaxVertices == 3
MaxEdges == 1
\* The leaves under the root of the tree SpecLayout starts from.
MaxLeaves == 6

\* The texts typed into the edit dialog.
EditTexts == {"Edited"}

null == 0
NoColor == <<>>
White == <<255, 255, 255>>

VARIABLES tree, contextMenu, activeNodeId, dragVertexId, edges,
          editOpen, editText, nextId, pressed

vars == <<tree, contextMenu, activeNodeId, dragVertexId, edges,
          editOpen, editText, nextId, pressed>>

(* ------------------------------ colours ------------------------------ *)

schemeTableau10 ==
  << <<78, 121, 167>>, <<242, 142, 44>>, <<225, 87, 89>>, <<118, 183, 178>>,
     <<89, 161, 79>>, <<237, 201, 73>>, <<175, 122, 161>>, <<255, 157, 167>>,
     <<156, 117, 95>>, <<186, 176, 171>> >>

RECURSIVE Pow(_, _)
Pow(b, k) == IF k = 0 THEN 1 ELSE b * Pow(b, k - 1)

\* One channel of d3.color(c).brighter(k).formatHex(): v * (1/0.7)^k, rounded
\* and clamped to 0..255.
BrightChannel(v, k) ==
  LET r == (2 * v * Pow(10, k) + Pow(7, k)) \div (2 * Pow(7, k))
  IN  IF r > 255 THEN 255 ELSE r

brighter(c, k) == [i \in 1..3 |-> BrightChannel(c[i], k)]

(* ------------------------------ helpers ------------------------------ *)

makeNode(uuid, label, color, baseColor, depth) ==
  [id |-> uuid, label |-> label, color |-> color, baseColor |-> baseColor,
   depth |-> depth, children |-> <<>>, vertices |-> <<>>]

RECURSIVE cloneTree(_)
cloneTree(node) ==
  [node EXCEPT !.children = [i \in DOMAIN node.children |-> cloneTree(node.children[i])],
               !.vertices = [i \in DOMAIN node.vertices |-> node.vertices[i]]]

\* clearAllVertices that empties the top node only.
clearAllVerticesTopOnly(node) == [node EXCEPT !.vertices = <<>>]

RECURSIVE clearAllVertices(_)
clearAllVertices(node) ==
  [node EXCEPT !.vertices = <<>>,
               !.children = [i \in DOMAIN node.children |-> clearAllVertices(node.children[i])]]

\* The three callbacks handed to findAndApply, as closures [op, ...captured].
\* addChildFn with the new child built by spreading the parent: it keeps the
\* parent's id.
addChildFnSpreadId(node, uuid) ==
  LET base  == IF node.baseColor # NoColor THEN node.baseColor
               ELSE schemeTableau10[(Len(node.children) % 10) + 1]
      depth == node.depth + 1
      color == IF depth = 1 THEN base ELSE brighter(base, depth - 1)
  IN  [node EXCEPT !.children = Append(node.children, makeNode(node.id, "Node", color, base, depth))]

addChildFn(node, uuid) ==
  LET base  == IF node.baseColor # NoColor THEN node.baseColor
               ELSE schemeTableau10[(Len(node.children) % 10) + 1]
      depth == node.depth + 1
      color == IF depth = 1 THEN base ELSE brighter(base, depth - 1)
  IN  [node EXCEPT !.children = Append(node.children, makeNode(uuid, "Node", color, base, depth))]

applyEditFn(node, text) == [node EXCEPT !.label = text]

\* createVertexFn that stores the new vertex alone, dropping the earlier ones.
createVertexFnAlone(node, uuid) ==
  [node EXCEPT !.vertices = <<[id |-> uuid, color |-> brighter(node.color, 1)]>>]

createVertexFn(node, uuid) ==
  [node EXCEPT !.vertices = Append(node.vertices, [id |-> uuid, color |-> brighter(node.color, 1)])]

ApplyFn(fn, node) ==
  CASE fn.op = "addChild"     -> addChildFn(node, fn.uuid)
    [] fn.op = "applyEdit"    -> applyEditFn(node, fn.text)
    [] fn.op = "createVertex" -> createVertexFn(node, fn.uuid)

RECURSIVE findAndApply(_, _, _)
findAndApply(node, id, fn) ==
  IF node.id = id THEN ApplyFn(fn, node)
  ELSE [node EXCEPT !.children = [i \in DOMAIN node.children |-> findAndApply(node.children[i], id, fn)]]

\* Array.prototype.filter on a sequence of nodes: drop those whose id is `id`.
RECURSIVE filterOut(_, _)
filterOut(s, id) ==
  IF s = <<>> THEN <<>>
  ELSE IF Head(s).id = id THEN filterOut(Tail(s), id)
       ELSE <<Head(s)>> \o filterOut(Tail(s), id)

\* removeRec that filters the children of the top node only.
removeRecTopOnly(node, id) ==
  [node EXCEPT !.children = filterOut(node.children, id)]

RECURSIVE removeRec(_, _)
removeRec(node, id) ==
  LET kept == filterOut(node.children, id)
  IN  [node EXCEPT !.children = [i \in DOMAIN kept |-> removeRec(kept[i], id)],
                   !.vertices = [i \in DOMAIN node.vertices |-> node.vertices[i]]]

\* openEdit's find: the matches in the order the search meets them; the first
\* is the node find returns, none is null.
RECURSIVE find(_, _)
RECURSIVE findIn(_, _)
find(node, id) ==
  IF node.id = id THEN <<node>> ELSE findIn(node.children, id)
findIn(s, id) ==
  IF s = <<>> THEN <<>> ELSE find(Head(s), id) \o findIn(Tail(s), id)

\* The tree both the state initialiser and createProject build.
newProject(rootUuid, childUuid) ==
  LET r    == makeNode(rootUuid, "Root", White, NoColor, 0)
      base == schemeTableau10[1]
  IN  [r EXCEPT !.children = Append(r.children, makeNode(childUuid, "Node", base, base, 1))]

(* --------------------------- derived layout --------------------------- *)

Max(S) == CHOOSE m \in S : \A x \in S : x <= m

RECURSIVE SumValues(_)
SumValues(s) == IF s = <<>> THEN 0 ELSE Head(s).value + SumValues(Tail(s))

\* A value accessor that counts every node.
leafMassAll(d) == 1

\* The value accessor given to sum: leaf mass only.
leafMass(d) == IF Len(d.children) > 0 THEN 0 ELSE 1

\* d3.hierarchy(tree).sum(leafMass): every node with its data, its depth (the
\* distance from the root), its height and its value (own mass plus the
\* children's values).
RECURSIVE hierarchy(_, _)
hierarchy(data, depth) ==
  LET kids == [i \in DOMAIN data.children |-> hierarchy(data.children[i], depth + 1)]
  IN  [data     |-> data,
       depth    |-> depth,
       height   |-> IF kids = <<>> THEN 0
                    ELSE 1 + Max({kids[i].height : i \in DOMAIN kids}),
       value    |-> leafMass(data) + SumValues(kids),
       children |-> kids]

root == hierarchy(tree, 0)

(* ------------------------------ doubles ------------------------------ *)

\* The angles of the layout are JavaScript numbers, IEEE-754 doubles.  A
\* finite double x >= 0 is held exactly: x * 2^Grid is a natural number, N,
\* and x is the record [d |-> digits, s |-> shift] with N = digits * Limb^s,
\* the digits in base Limb = 2^LimbBits, least significant first, the first
\* and the last of them not zero; 0 is [d |-> <<>>, s |-> 0].  Every double
\* is a multiple of 2^-Denormal, the smallest one, and Grid is the next
\* multiple of LimbBits above Denormal.  A double keeps Mantissa significant
\* bits.  Results of 2^1024 and more (Infinity) and negative results are not
\* held: the angles lie between 0 and 2 * Math.PI and x1 >= x0.
LimbBits == 15
Limb == 32768
Grid == 1080
Denormal == 1074
Mantissa == 53

Zero == [d |-> <<>>, s |-> 0]

\* Natural numbers as digit sequences.
Low(a) == IF a = <<>> THEN 0 ELSE Head(a)
Rest(a) == IF a = <<>> THEN <<>> ELSE Tail(a)

\* a without zero digits at the high end.
Trim(a) ==
  LET used == {i \in DOMAIN a : a[i] # 0}
  IN  IF used = {} THEN <<>> ELSE SubSeq(a, 1, Max(used))

RECURSIVE PlusCarry(_, _, _)
PlusCarry(a, b, c) ==
  IF a = <<>> /\ b = <<>> THEN (IF c = 0 THEN <<>> ELSE <<c>>)
  ELSE LET t == Low(a) + Low(b) + c
       IN  <<t % Limb>> \o PlusCarry(Rest(a), Rest(b), t \div Limb)

RECURSIVE MinusBorrow(_, _, _)
MinusBorrow(a, b, c) ==
  IF a = <<>> THEN <<>>
  ELSE LET t == Low(a) - Low(b) - c
       IN  <<IF t < 0 THEN t + Limb ELSE t>>
           \o MinusBorrow(Rest(a), Rest(b), IF t < 0 THEN 1 ELSE 0)

RECURSIVE TimesCarry(_, _, _)
TimesCarry(a, m, c) ==
  IF a = <<>> THEN (IF c = 0 THEN <<>> ELSE <<c>>)
  ELSE LET t == Head(a) * m + c
       IN  <<t % Limb>> \o TimesCarry(Tail(a), m, t \div Limb)

\* a divided by a natural number 0 < v < Limb: the quotient's digits (q, not
\* trimmed) and the remainder r.
RECURSIVE DivRem(_, _)
DivRem(a, v) ==
  IF a = <<>> THEN [q |-> <<>>, r |-> 0]
  ELSE LET hi  == DivRem(Tail(a), v)
           cur == hi.r * Limb + Head(a)
       IN  [q |-> <<cur \div v>> \o hi.q, r |-> cur % v]

\* -1, 0 or 1 as the natural number a is below, equal to or above b.
RECURSIVE CmpDigits(_, _)
CmpDigits(a, b) ==
  IF Len(a) # Len(b) THEN (IF Len(a) < Len(b) THEN -1 ELSE 1)
  ELSE IF a = <<>> THEN 0
  ELSE IF a[Len(a)] # b[Len(b)] THEN (IF a[Len(a)] < b[Len(b)] THEN -1 ELSE 1)
  ELSE CmpDigits(SubSeq(a, 1, Len(a) - 1), SubSeq(b, 1, Len(b) - 1))

\* 2^0 .. 2^(LimbBits - 1), and the number of bits of a digit.
TwoTo == <<1, 2, 4, 8, 16, 32, 64, 128, 256, 512, 1024, 2048, 4096, 8192, 16384>>

Bits(n) == Cardinality({i \in DOMAIN TwoTo : TwoTo[i] <= n})

BitLen(a) == IF a = <<>> THEN 0 ELSE LimbBits * (Len(a) - 1) + Bits(a[Len(a)])

\* 2^n, as digits.
TwoToThe(n) ==
  [i \in 1..((n \div LimbBits) + 1) |->
     IF i <= n \div LimbBits THEN 0 ELSE TwoTo[(n % LimbBits) + 1]]

\* The record of the value digits * Limb^s: zero digits at the low end go
\* into the shift.
Norm(a, s) ==
  IF a = <<>> THEN Zero
  ELSE LET z == (CHOOSE i \in DOMAIN a : a[i] # 0 /\ \A j \in 1..(i - 1) : a[j] = 0) - 1
       IN  [d |-> SubSeq(a, z + 1, Len(a)), s |-> s + z]

\* The digits of x at shift s <= x.s, and the lower shift of two values.
Align(x, s) == IF x.d = <<>> THEN <<>> ELSE [i \in 1..(x.s - s) |-> 0] \o x.d

Lower(a, b) ==
  IF a.d = <<>> THEN b.s
  ELSE IF b.d = <<>> THEN a.s
  ELSE IF a.s < b.s THEN a.s ELSE b.s

\* a + b, a - b (for a >= b) and a * m (for a natural number m < Limb),
\* exactly, and -1, 0 or 1 as a is below, equal to or above b.
Plus(a, b) ==
  LET s == Lower(a, b) IN Norm(PlusCarry(Align(a, s), Align(b, s), 0), s)

Minus(a, b) ==
  LET s == Lower(a, b) IN Norm(Trim(MinusBorrow(Align(a, s), Align(b, s), 0)), s)

Times(a, m) == Norm(Trim(TimesCarry(a.d, m, 0)), a.s)

Cmp(a, b) ==
  LET s == Lower(a, b) IN CmpDigits(Align(a, s), Align(b, s))

\* The natural number a with its n lowest bits rounded away (a plus a
\* fraction when sticky): to the nearest multiple of 2^n, a tie to the one
\* whose quotient by 2^n is even.  The bits dropped are the digits 1..j and
\* the part of digit j + 1 below w.
RoundBits(a, n, sticky) ==
  LET j      == n \div LimbBits
      w      == TwoTo[(n % LimbBits) + 1]
      lowTop == a[j + 1] % w
      half   == IF w > 1 THEN w \div 2 ELSE Limb \div 2
      top    == IF w > 1 THEN lowTop ELSE a[j]
      below  == IF w > 1 THEN 1..j ELSE 1..(j - 1)
      above  == top > half \/ (top = half /\ \E i \in below : a[i] # 0)
      tie    == top = half /\ \A i \in below : a[i] = 0
      odd    == (a[j + 1] \div w) % 2 = 1
      kept   == [i \in DOMAIN a |-> IF i <= j THEN 0
                                    ELSE IF i = j + 1 THEN a[i] - lowTop
                                    ELSE a[i]]
  IN  IF n <= 0 THEN a
      ELSE IF above \/ (tie /\ (sticky \/ odd))
           THEN PlusCarry(kept, TwoToThe(n), 0)
      ELSE kept

\* The double nearest to digits * Limb^s (plus a fraction of Limb^s when
\* sticky): Mantissa significant bits are kept, and no bit below 2^-Denormal.
RoundToDouble(a, s, sticky) ==
  LET long == BitLen(a) - Mantissa
      deep == (Grid - Denormal) - LimbBits * s
      n    == IF long > deep THEN long ELSE deep
  IN  IF a = <<>> THEN Zero ELSE Norm(Trim(RoundBits(a, n, sticky)), s)

\* The JavaScript operators on doubles: a + b, a - b (a >= b), v * k for a
\* natural number v < Limb, a / v for a natural number 0 < v < Limb (a - 0,
\* 1 * k and a / 1 are exact).  The quotient is taken to at least
\* Mantissa + 2 bits, or down to 2^-Grid.
add(a, b) ==
  LET s == Lower(a, b)
  IN  RoundToDouble(PlusCarry(Align(a, s), Align(b, s), 0), s, FALSE)

sub(a, b) ==
  IF b = Zero THEN a
  ELSE LET s == Lower(a, b)
       IN  RoundToDouble(Trim(MinusBorrow(Align(a, s), Align(b, s), 0)), s, FALSE)

mul(v, k) == IF v = 1 THEN k ELSE RoundToDouble(Trim(TimesCarry(k.d, v, 0)), k.s, FALSE)

div(a, v) ==
  IF v = 1 \/ a = Zero THEN a
  ELSE LET room == ((Mantissa + 2) \div LimbBits) + 2
           more == IF a.s < room THEN a.s ELSE room
           q    == DivRem([i \in 1..more |-> 0] \o a.d, v)
       IN  RoundToDouble(Trim(q.q), a.s - more, q.r # 0)

\* 2 * Math.PI, the double 0x401921FB54442D18 = 7074237752028440 * 2^-50.
TwoPi == [d |-> <<24576, 8552, 13636, 9279, 6>>, s |-> 68]

\* treemapDice: the children side by side from x0, node.x0 = x0 and
\* node.x1 = x0 += node.value * k.
RECURSIVE dice(_, _, _)
dice(kids, x0, k) ==
  IF kids = <<>> THEN <<>>
  ELSE LET x1 == add(x0, mul(Head(kids).value, k))
       IN  <<[x0 |-> x0, x1 |-> x1]>> \o dice(Tail(kids), x1, k)

\* positionNode: the node's own box is given; its children share its angular
\* span, k = parent.value && (x1 - x0) / parent.value, and take the next ring,
\* dy * (depth + 1) / n to dy * (depth + 2) / n (whole numbers: dy = n).
RECURSIVE positionNode(_, _, _, _, _, _, _)
positionNode(node, x0, x1, y0, y1, dy, n) ==
  LET k    == IF node.value = 0 THEN Zero ELSE div(sub(x1, x0), node.value)
      span == dice(node.children, x0, k)
      cy0  == (dy * (node.depth + 1)) \div n
      cy1  == (dy * (node.depth + 2)) \div n
  IN  [data |-> node.data, depth |-> node.depth, height |-> node.height,
       value |-> node.value, x0 |-> x0, x1 |-> x1, y0 |-> y0, y1 |-> y1,
       children |-> [i \in DOMAIN node.children |->
                       positionNode(node.children[i], span[i].x0, span[i].x1,
                                    cy0, cy1, dy, n)]]

\* d3.partition().size([2 * Math.PI, root.height + 1])(root)
partition ==
  LET dx == TwoPi
      dy == root.height + 1
      n  == root.height + 1
  IN  positionNode(root, Zero, dx, 0, dy \div n, dy, n)

\* node.descendants(): breadth first, the node itself first.
RECURSIVE bfs(_)
bfs(queue) ==
  IF queue = <<>> THEN <<>>
  ELSE <<Head(queue)>> \o bfs(Tail(queue) \o Head(queue).children)

descendants(node) == bfs(<<node>>)

outerDepth == root.height

isOutermostSector(d) == Len(d.children) = 0 /\ d.depth = outerDepth

\* The sectors that carry drawn vertices: descendants().slice(1), outermost,
\* with a non-empty vertices array.  d3.partition lays the nodes of root out in
\* place and returns root, so the nodes it walks, their depth, children and
\* data are those of root; the boxes are read from the partition.
vertexSectors ==
  LET ds == descendants(root)
  IN  {ds[i] : i \in {j \in DOMAIN ds : /\ j > 1
                                        /\ isOutermostSector(ds[j])
                                        /\ Len(ds[j].data.vertices) > 0}}

\* The laid out node of a tree node.
sectorOf(id) ==
  LET ds == descendants(partition)
  IN  ds[CHOOSE j \in DOMAIN ds : ds[j].data.id = id]

\* vertexPos, a Map from vertex id to its place: here the sector's span, the
\* vertex's rank in it and its colour (x and y are the cosine and sine of
\* x0 + (x1 - x0) / (vs.length + 1) * (i + 1) at radius y1 * 90).
vertexPosKeys ==
  UNION {{d.data.vertices[i].id : i \in DOMAIN d.data.vertices} : d \in vertexSectors}

vertexPos ==
  [vid \in vertexPosKeys |->
     LET s == CHOOSE t \in vertexSectors :
                \E i \in DOMAIN t.data.vertices : t.data.vertices[i].id = vid
         d == sectorOf(s.data.id)
         i == CHOOSE j \in DOMAIN d.data.vertices : d.data.vertices[j].id = vid
     IN  [x0 |-> d.x0, x1 |-> d.x1, y1 |-> d.y1, i |-> i, of |-> Len(d.data.vertices),
          color |-> d.data.vertices[i].color]]

(* ------------------------------- state ------------------------------- *)

\* The k-th identifier uuidv4 returns within one handler.
uuidv4(k) == nextId + k

RECURSIVE nodeIds(_)
nodeIds(node) ==
  {node.id} \cup UNION {nodeIds(node.children[i]) : i \in DOMAIN node.children}

Released == [down |-> FALSE, on |-> null]

Init ==
  /\ tree = newProject(1, 2)
  /\ nextId = 3
  /\ contextMenu = FALSE
  /\ activeNodeId = null
  /\ dragVertexId = null
  /\ edges = <<>>
  /\ editOpen = FALSE
  /\ editText = ""
  /\ pressed = Released

(* ------------------------- reading a tree ------------------------- *)

RECURSIVE countNodes(_)
RECURSIVE countNodesIn(_)
countNodes(node) == 1 + countNodesIn(node.children)
countNodesIn(s) == IF s = <<>> THEN 0 ELSE countNodes(Head(s)) + countNodesIn(Tail(s))

\* One record per node of the tree t: its own fields, its parent's id (null for
\* the root), its distance from the root, the ids of its children in order.
RECURSIVE infoOf(_, _, _)
infoOf(node, parent, dist) ==
  {[id |-> node.id, label |-> node.label, color |-> node.color,
    baseColor |-> node.baseColor, depth |-> node.depth, parent |-> parent,
    dist |-> dist, kids |-> [i \in DOMAIN node.children |-> node.children[i].id],
    vertices |-> node.vertices]}
  \cup UNION {infoOf(node.children[i], node.id, dist + 1) : i \in DOMAIN node.children}

Info(t) == infoOf(t, null, 0)

ParentPairs(t) == {<<i.parent, i.id>> : i \in {j \in Info(t) : j.parent # null}}

\* The ids reachable from the ids in S by one or more parent-to-child steps.
RECURSIVE Below(_, _)
Below(pairs, S) ==
  LET next == S \cup {pc[2] : pc \in {q \in pairs : q[1] \in S}}
  IN  IF next = S THEN S ELSE Below(pairs, next)

Descendants(t, id) == Below(ParentPairs(t), {pc[2] : pc \in {q \in ParentPairs(t) : q[1] = id}})

Height(t) == Max({i.dist : i \in Info(t)})

VertexIds(t) == UNION {{i.vertices[k].id : k \in DOMAIN i.vertices} : i \in Info(t)}

NoVertices(t) == \A i \in Info(t) : i.vertices = <<>>

(* ------------------------------ handlers ------------------------------ *)

\* The Menu and the Dialog are modal: while one is open its backdrop takes the
\* clicks, so the toolbar, the sectors and the vertex circles are out of reach.
noModal == ~contextMenu /\ ~editOpen

\* createProject without setEdges([]).
createProjectKeepEdges ==
  /\ noModal
  /\ tree' = newProject(uuidv4(0), uuidv4(1))
  /\ nextId' = nextId + 2
  /\ dragVertexId' = null
  /\ UNCHANGED <<edges, contextMenu, activeNodeId, editOpen, editText, pressed>>

createProject ==
  /\ noModal
  /\ tree' = newProject(uuidv4(0), uuidv4(1))
  /\ nextId' = nextId + 2
  /\ edges' = <<>>
  /\ dragVertexId' = null
  /\ UNCHANGED <<contextMenu, activeNodeId, editOpen, editText, pressed>>

\* A right click on the root circle or on a sector's path.
onRightClick(nodeId) ==
  /\ noModal
  /\ activeNodeId' = nodeId
  /\ contextMenu' = TRUE
  /\ UNCHANGED <<tree, dragVertexId, edges, editOpen, editText, nextId, pressed>>

closeContextMenu ==
  /\ contextMenu
  /\ contextMenu' = FALSE
  /\ UNCHANGED <<tree, activeNodeId, dragVertexId, edges, editOpen, editText, nextId, pressed>>

\* addChild without setEdges([]).
addChildKeepEdges ==
  /\ contextMenu
  /\ tree' = findAndApply(clearAllVertices(cloneTree(tree)), activeNodeId,
                           [op |-> "addChild", uuid |-> uuidv4(0)])
  /\ nextId' = nextId + 1
  /\ contextMenu' = FALSE
  /\ dragVertexId' = null
  /\ UNCHANGED <<edges, activeNodeId, editOpen, editText, pressed>>

addChild ==
  /\ contextMenu
  /\ tree' = findAndApply(clearAllVertices(cloneTree(tree)), activeNodeId,
                           [op |-> "addChild", uuid |-> uuidv4(0)])
  /\ nextId' = nextId + 1
  /\ edges' = <<>>
  /\ dragVertexId' = null
  /\ contextMenu' = FALSE
  /\ UNCHANGED <<activeNodeId, editOpen, editText, pressed>>

\* removeNode without the early return for the root.
removeNodeNoRootCheck ==
  /\ contextMenu
  /\ tree' = removeRec(cloneTree(tree), activeNodeId)
  /\ edges' = <<>>
  /\ dragVertexId' = null
  /\ contextMenu' = FALSE
  /\ UNCHANGED <<activeNodeId, editOpen, editText, nextId, pressed>>

removeNode ==
  /\ contextMenu
  /\ IF tree.id = activeNodeId
     THEN UNCHANGED <<tree, edges, dragVertexId, contextMenu>>
     ELSE /\ tree' = removeRec(cloneTree(tree), activeNodeId)
          /\ edges' = <<>>
          /\ dragVertexId' = null
          /\ contextMenu' = FALSE
  /\ UNCHANGED <<activeNodeId, editOpen, editText, nextId, pressed>>

openEdit ==
  /\ contextMenu
  /\ LET n == find(tree, activeNodeId)
     IN  editText' = IF n = <<>> THEN "" ELSE Head(n).label
  /\ editOpen' = TRUE
  /\ contextMenu' = FALSE
  /\ UNCHANGED <<tree, activeNodeId, dragVertexId, edges, nextId, pressed>>

\* The text field's onChange.
onChangeEditText(text) ==
  /\ editOpen
  /\ editText' = text
  /\ UNCHANGED <<tree, contextMenu, activeNodeId, dragVertexId, edges, editOpen, nextId, pressed>>

\* The dialog's onClose and its Cancel button.
cancelEdit ==
  /\ editOpen
  /\ editOpen' = FALSE
  /\ UNCHANGED <<tree, contextMenu, activeNodeId, dragVertexId, edges, editText, nextId, pressed>>

applyEdit ==
  /\ editOpen
  /\ tree' = findAndApply(cloneTree(tree), activeNodeId,
                           [op |-> "applyEdit", text |-> editText])
  /\ editOpen' = FALSE
  /\ UNCHANGED <<contextMenu, activeNodeId, dragVertexId, edges, editText, nextId, pressed>>

createVertex ==
  /\ contextMenu
  /\ tree' = findAndApply(cloneTree(tree), activeNodeId,
                           [op |-> "createVertex", uuid |-> uuidv4(0)])
  /\ nextId' = nextId + 1
  /\ contextMenu' = FALSE
  /\ UNCHANGED <<activeNodeId, dragVertexId, edges, editOpen, editText, pressed>>

\* The drawn vertex circles' handlers.
onMouseDown(v) ==
  /\ noModal
  /\ dragVertexId' = v
  /\ UNCHANGED <<tree, contextMenu, activeNodeId, edges, editOpen, editText, nextId>>

onMouseUp(v) ==
  /\ noModal
  /\ IF dragVertexId # null /\ dragVertexId # v
     THEN edges' = Append(edges, [from |-> dragVertexId, to |-> v])
     ELSE UNCHANGED edges
  /\ dragVertexId' = null
  /\ UNCHANGED <<tree, contextMenu, activeNodeId, editOpen, editText, nextId>>

(* ------------------------------- bounds ------------------------------- *)

\* The handlers that draw identifiers or make the state grow are taken only
\* while the run stays within its bounds b: the next identifier is b.lastId at
\* most, the tree has up to b.nodes nodes and b.vertices vertices, the edge
\* list up to MaxEdges edges; the texts typed into the edit dialog are those
\* of b.texts.
idsLeft(b) == nextId <= b.lastId

roomForNode(b) == countNodes(tree) < b.nodes

roomForVertex(b) == Cardinality(VertexIds(tree)) < b.vertices

roomForEdge(v) == (dragVertexId # null /\ dragVertexId # v) => Len(edges) < MaxEdges

\* Every handler but the vertex circles' two.
Edit(b) ==
  \/ idsLeft(b) /\ createProject
  \/ \E nodeId \in nodeIds(tree) : onRightClick(nodeId)
  \/ closeContextMenu
  \/ idsLeft(b) /\ roomForNode(b) /\ addChild
  \/ removeNode
  \/ openEdit
  \/ \E text \in b.texts : onChangeEditText(text)
  \/ cancelEdit
  \/ applyEdit
  \/ idsLeft(b) /\ roomForVertex(b) /\ createVertex

\* The program as its handlers see it: any handler may run next; the state of
\* the mouse button is not followed.
Handlers(b) ==
  \/ Edit(b)
  \/ \E v \in vertexPosKeys : onMouseDown(v) /\ UNCHANGED pressed
  \/ \E v \in vertexPosKeys : roomForEdge(v) /\ onMouseUp(v) /\ UNCHANGED pressed

Bounds ==
  [lastId |-> MaxId, nodes |-> MaxNodes, vertices |-> MaxVertices, texts |-> EditTexts]

Next == Handlers(Bounds)

Spec == Init /\ [][Next]_vars

(* ------------------------- trees for the layout ------------------------- *)

\* The tree after k more Add Child on the root, the new nodes taking the
\* identifiers uuid, uuid + 1, ...
RECURSIVE addChildren(_, _, _)
addChildren(t, k, uuid) ==
  IF k = 0 THEN t
  ELSE addChildren(findAndApply(clearAllVertices(cloneTree(t)), t.id,
                                [op |-> "addChild", uuid |-> uuid]),
                   k - 1, uuid + 1)

\* The program in the state it is in after the first render and
\* MaxLeaves - 1 times a right click on the root and Add Child: the root with
\* MaxLeaves leaves, nothing else touched but activeNodeId.
InitLayout ==
  /\ tree = addChildren(newProject(1, 2), MaxLeaves - 1, 3)
  /\ nextId = MaxLeaves + 2
  /\ contextMenu = FALSE
  /\ activeNodeId = 1
  /\ dragVertexId = null
  /\ edges = <<>>
  /\ editOpen = FALSE
  /\ editText = ""
  /\ pressed = Released

\* The program run on from that state: one more handler that draws
\* identifiers, one more node, one vertex, and the text typed is the label the
\* nodes carry.
LayoutBounds ==
  [lastId |-> MaxLeaves + 2, nodes |-> MaxLeaves + 2, vertices |-> 1, texts |-> {"Node"}]

NextLayout == Handlers(LayoutBounds)

SpecLayout == InitLayout /\ [][NextLayout]_vars

(* --------------------------- the mouse button --------------------------- *)

\* `pressed` is the mouse button itself: whether it is held and, if so, the
\* vertex it went down on (null: anywhere else).  The button goes down, then
\* up; a vertex circle's handler runs when that happens on the circle, and
\* nothing runs when it happens anywhere else: no handler is attached there.
pressOnVertex(v) ==
  /\ ~pressed.down
  /\ onMouseDown(v)
  /\ pressed' = [down |-> TRUE, on |-> v]

releaseOnVertex(v) ==
  /\ pressed.down
  /\ roomForEdge(v)
  /\ onMouseUp(v)
  /\ pressed' = Released

mouseDownElsewhere ==
  /\ ~pressed.down
  /\ pressed' = [down |-> TRUE, on |-> null]
  /\ UNCHANGED <<tree, contextMenu, activeNodeId, dragVertexId, edges, editOpen, editText, nextId>>

mouseUpElsewhere ==
  /\ pressed.down
  /\ pressed' = Released
  /\ UNCHANGED <<tree, contextMenu, activeNodeId, dragVertexId, edges, editOpen, editText, nextId>>

NextDrag ==
  \/ Edit(Bounds)
  \/ \E v \in vertexPosKeys : pressOnVertex(v)
  \/ \E v \in vertexPosKeys : releaseOnVertex(v)
  \/ mouseDownElsewhere
  \/ mouseUpElsewhere

SpecDrag == Init /\ [][NextDrag]_vars

(* ------------------------------- claims ------------------------------- *)

WellFormed(t) ==
  /\ countNodes(t) = Cardinality(nodeIds(t))
  /\ {id \in nodeIds(t) : ~\E pc \in ParentPairs(t) : pc[2] = id} = {t.id}
  /\ \A id \in nodeIds(t) \ {t.id} :
        Cardinality({pc \in ParentPairs(t) : pc[2] = id}) = 1
  /\ \A id \in nodeIds(t) : id \notin Descendants(t, id)
  /\ Descendants(t, t.id) = nodeIds(t) \ {t.id}

\* C1: in every reachable state the tree is well formed (node ids pairwise
\* distinct, exactly one root, every other node with exactly one parent, no
\* cycle in the children relation, every node below the root), and the root
\* is never removed: only createProject replaces it.
C1_TreeWellFormed ==
  /\ [](WellFormed(tree))
  /\ [][tree'.id # tree.id => createProject]_vars

\* A removal has emptied the root (the last node right-clicked is gone) and
\* the root is still there.
C1_Witness ==
  /\ tree.children = <<>>
  /\ activeNodeId # null /\ activeNodeId \notin nodeIds(tree)
  /\ nextId > 3

\* C2 as stated: vertices are cleared whenever the tree's shape changes: after
\* any addChild, and after any removeNode that removes a node, no node of the
\* tree carries a vertex.
C2_VerticesClearedOnShapeChange ==
  [][/\ addChild => NoVertices(tree')
     /\ (removeNode /\ nodeIds(tree') # nodeIds(tree)) => NoVertices(tree')]_vars

\* C2 as amended: after any addChild no node of the tree carries a vertex;
\* removeNode clears none: every node that is left keeps its vertices as they
\* were, and only the vertices of the removed nodes go.
C2_VerticesClearedOnAddKeptOnRemove ==
  [][/\ addChild => NoVertices(tree')
     /\ removeNode =>
          \A j \in Info(tree') : \E i \in Info(tree) :
            i.id = j.id /\ i.vertices = j.vertices]_vars

\* The node last right-clicked has been removed, and a sector that is left
\* still carries a vertex.
C2_Witness ==
  /\ activeNodeId # null /\ activeNodeId \notin nodeIds(tree)
  /\ ~contextMenu
  /\ \E i \in Info(tree) : i.parent # null /\ i.vertices # <<>>

\* C3: the state right after any addChild, any createProject and any removeNode
\* that is not rejected has an empty edge list and no drag in progress.
C3_EdgesClearedOnStructuralChange ==
  [][(addChild \/ createProject \/ (removeNode /\ tree.id # activeNodeId))
       => (edges' = <<>> /\ dragVertexId' = null)]_vars

\* An edge is drawn, a drag is pending, no menu or dialog is open and two
\* identifiers are left: New Project is one click away, and Add Child and
\* Remove two (a right click first).
C3_Witness ==
  /\ edges # <<>> /\ dragVertexId # null
  /\ noModal
  /\ nextId + 1 <= MaxId
  /\ countNodes(tree) < MaxNodes

\* C4: in every reachable state a node that carries vertices is a leaf at the
\* deepest ring: it has no children and its depth is the height of the tree.
C4_VerticesOnlyOnOutermostLeaves ==
  \A i \in Info(tree) :
    i.vertices # <<>> => (i.kids = <<>> /\ i.depth = Height(tree))

(* The layout, read back per node. *)
LayoutOf(p) == LET ds == descendants(p) IN {ds[i] : i \in DOMAIN ds}

\* |a - b|, exactly.
Gap(a, b) == IF Cmp(a, b) >= 0 THEN Minus(a, b) ELSE Minus(b, a)

\* The step between neighbouring doubles at the size of the full circle
\* (2^-50 for 4 <= x < 8).
CircleUlp == [d |-> TwoToThe(BitLen(TwoPi.d) - Mantissa), s |-> TwoPi.s]

\* a and b are at most n such steps apart.
Near(a, b, n) == a = b \/ Cmp(Gap(a, b), Times(CircleUlp, n)) <= 0

Tiles(d) ==
  LET c == d.children
  IN  c # <<>> =>
        /\ c[1].x0 = d.x0
        /\ c[Len(c)].x1 = d.x1
        /\ \A k \in 1..(Len(c) - 1) : c[k].x1 = c[k + 1].x0
        /\ \A k \in DOMAIN c : Cmp(c[k].x0, c[k].x1) < 0

TilesRounded(d) ==
  LET c == d.children
  IN  c # <<>> =>
        /\ c[1].x0 = d.x0
        /\ Near(c[Len(c)].x1, d.x1, Len(c) + 1)
        /\ \A k \in 1..(Len(c) - 1) : c[k].x1 = c[k + 1].x0
        /\ \A k \in DOMAIN c : Cmp(c[k].x0, c[k].x1) < 0

LeavesOf(L) == {d \in L : d.children = <<>>}

\* Read from the tree itself: every laid out node weighs the number of leaves
\* at or below it, the root weighs the number of leaves of the tree, and a
\* node at distance r from the root has the band [r, r + 1], one of the
\* height + 1 rings, the last of which is in use.
WeightsAndBands(p, L) ==
  LET info   == Info(tree)
      pairs  == {<<i.parent, i.id>> : i \in {j \in info : j.parent # null}}
      leaves == {i.id : i \in {j \in info : j.kids = <<>>}}
      rings  == Max({i.dist : i \in info}) + 1
  IN  /\ p.value = Cardinality(leaves)
      /\ \A d \in L :
            /\ d.value = Cardinality(Below(pairs, {d.data.id}) \cap leaves)
            /\ d.y0 = (CHOOSE i \in info : i.id = d.data.id).dist
            /\ d.y1 = d.y0 + 1
            /\ d.y1 <= rings
      /\ \E d \in L : d.y1 = rings

C6_NonStructuralEditsFrame ==
  [][/\ applyEdit =>
          /\ Info(tree') = {[i EXCEPT !.label = IF i.id = activeNodeId
                                                 THEN editText ELSE i.label]
                              : i \in Info(tree)}
          /\ countNodes(tree') = countNodes(tree)
          /\ edges' = edges /\ dragVertexId' = dragVertexId
     /\ createVertex =>
          /\ \E v \in VertexIds(tree') \ (VertexIds(tree) \cup nodeIds(tree)) :
                \E c \in {brighter(i.color, 1) : i \in Info(tree)} :
                  Info(tree') = {[i EXCEPT !.vertices =
                                     IF i.id = activeNodeId
                                     THEN Append(i.vertices, [id |-> v, color |-> c])
                                     ELSE i.vertices]
                                  : i \in Info(tree)}
          /\ countNodes(tree') = countNodes(tree)
          /\ edges' = edges /\ dragVertexId' = dragVertexId]_vars

\* A node renamed through the dialog carries three vertices, the third
\* appended while an edge joined the first two and a drag was pending.
C6_Witness ==
  \E i \in Info(tree) :
    /\ i.label = "Edited"
    /\ Len(i.vertices) = 3
    /\ i.vertices[1].id < i.vertices[2].id /\ i.vertices[2].id < i.vertices[3].id
    /\ edges # <<>>
    /\ {edges[1].from, edges[1].to} = {i.vertices[1].id, i.vertices[2].id}
    /\ dragVertexId # null

\* C7: an edge (a, b) is appended only when the button went down on vertex a
\* and its next release is on a different vertex b: at the moment of the
\* append the button is held since a press on the edge's first endpoint.
C7_EdgesOnlyByDrag ==
  [][Len(edges') > Len(edges) =>
       /\ pressed.down
       /\ pressed.on # null
       /\ edges'[Len(edges')].from = pressed.on
       /\ edges'[Len(edges')].to # pressed.on]_vars

\* The vertices drawn: those of the non-root leaves on the deepest ring.
DrawnVertexIds ==
  UNION {{i.vertices[k].id : k \in DOMAIN i.vertices}
         : i \in {j \in Info(tree) : /\ j.parent # null
                                      /\ j.kids = <<>>
                                      /\ j.dist = Height(tree)}}

\* C8: in every reachable state every edge joins two different vertices that
\* exist on non-root leaves of the deepest ring and have a place in vertexPos,
\* and so does a non-null dragVertexId.
C8_NoDanglingEdges ==
  LET drawn == DrawnVertexIds
      placed == DOMAIN vertexPos
  IN  /\ \A k \in DOMAIN edges :
            /\ edges[k].from # edges[k].to
            /\ {edges[k].from, edges[k].to} \subseteq drawn
            /\ {edges[k].from, edges[k].to} \subseteq placed
      /\ dragVertexId # null => (dragVertexId \in drawn /\ dragVertexId \in placed)

\* An edge has been drawn, a vertex has been created since (its identifier is
\* above both ends of the edge), another drag has begun, and an identifier is
\* left for Add Child.
C8_Witness ==
  /\ edges # <<>> /\ dragVertexId # null
  /\ \E v \in VertexIds(tree) : v > edges[1].from /\ v > edges[1].to
  /\ nextId <= MaxId /\ countNodes(tree) < MaxNodes

RECURSIVE Without(_, _)
Without(ids, gone) ==
  IF ids = <<>> THEN <<>>
  ELSE IF Head(ids) \in gone THEN Without(Tail(ids), gone)
       ELSE <<Head(ids)>> \o Without(Tail(ids), gone)

\* C9: removeNode on a non-root active node removes exactly its subtree; every
\* other node keeps its id, label, color, baseColor, depth and parent, and the
\* children left under every node keep their order.
C9_RemoveExactlySubtree ==
  [][(removeNode /\ tree.id # activeNodeId /\ activeNodeId \in nodeIds(tree)) =>
       LET gone == {activeNodeId} \cup Descendants(tree, activeNodeId)
       IN  /\ nodeIds(tree') = nodeIds(tree) \ gone
           /\ countNodes(tree') = Cardinality(nodeIds(tree'))
           /\ \A j \in Info(tree') : \E i \in Info(tree) :
                 /\ i.id = j.id /\ i.label = j.label /\ i.color = j.color
                 /\ i.baseColor = j.baseColor /\ i.depth = j.depth
                 /\ i.parent = j.parent
                 /\ j.kids = Without(i.kids, gone)]_vars

\* The node last right-clicked is gone together with a second node, and other
\* nodes are still there.
C9_Witness ==
  /\ activeNodeId # null /\ activeNodeId \notin nodeIds(tree)
  /\ nodeIds(tree) = {1, 2}
  /\ nextId = 5 /\ VertexIds(tree) = {}

\* C10: removeNode with the root active changes nothing: the tree with all its
\* vertices, the edge list and dragVertexId stay as they were.
C10_RootRemovalRejected ==
  [][(removeNode /\ tree.id = activeNodeId) =>
       UNCHANGED <<tree, edges, dragVertexId>>]_vars

\* The menu is open on the root while an edge is drawn and a drag is pending:
\* Remove leaves this state as it is.
C10_Witness ==
  /\ contextMenu /\ activeNodeId = tree.id
  /\ edges # <<>> /\ dragVertexId # null

====
